---- MODULE Spec2Model ----
(***************************************************************************)
(* Model of star_system.py (SolarSystemBody, Sun, Planet, SolarSystem) and *)
(* of the driver loop of sample_star_system.py.                            *)
(*                                                                         *)
(* Python floats are modelled as fixed-point numbers: a real x is the      *)
(* integer round(x * Scale), and every arithmetic operation that rounds in *)
(* floating point rounds to the nearest fixed-point unit here.  Masses are *)
(* integers, as in the sample script.                                      *)
(***************************************************************************)
EXTENDS Integers, Sequences, FiniteSets, TLC

\* ---------------------------------------------------------------- bounds
MaxBodies == 3
MaxTicks == 2
MaxCalls == 1
MaxDirectBodies == 2
Scale == 100

\* ------------------------------------------------------- program constants
min_display_size == 20
LogBaseNum == 11
LogBaseDen == 10

\* ------------------------------------------------------------- input sets
Kinds == {"Sun", "Planet"}
Masses == {-1, 0, 2, 20}
Positions == {<<0, 0>>, <<12, 0>>, <<12, 16>>}
Velocities == {<<0, 1>>}

VARIABLES
    kind,          \* class of each constructed body, by body id
    mass,          \* SolarSystemBody.mass
    position,      \* turtle position of each body (fixed point)
    velocity,      \* SolarSystemBody.velocity (fixed point)
    display_size,  \* SolarSystemBody.display_size (fixed point)
    bodies,        \* SolarSystem.bodies: the live list, of body ids
    bodies_copy,   \* the snapshot taken by the last interaction pass
    pc,            \* where the driver is
    raised,        \* the exception that terminated the program, if any
    ticks,         \* completed iterations of the driver loop
    calls,         \* direct calls of engine methods made so far
    lastOp,        \* the operation performed by the last step
    trace          \* what the last operation did, in order

vars == <<kind, mass, position, velocity, display_size, bodies, bodies_copy,
          pc, raised, ticks, calls, lastOp, trace>>

\* ---------------------------------------------------------------- helpers
Range(s) == {s[i] : i \in 1..Len(s)}

Abs(x) == IF x < 0 THEN -x ELSE x

\* a / b rounded to the nearest integer (b > 0)
RoundDiv(a, b) ==
    IF a >= 0 THEN (2 * a + b) \div (2 * b)
    ELSE -((2 * (-a) + b) \div (2 * b))

RECURSIVE SqrtBin(_, _, _)
SqrtBin(n, lo, hi) ==
    IF lo >= hi THEN lo
    ELSE LET mid == (lo + hi + 1) \div 2
         IN IF mid * mid <= n THEN SqrtBin(n, mid, hi)
            ELSE SqrtBin(n, lo, mid - 1)

\* floor of the square root
ISqrt(n) == SqrtBin(n, 0, 46340)

Event(op, a, b) == [op |-> op, a |-> a, b |-> b]

Op(name, first, second, m) ==
    [name |-> name, first |-> first, second |-> second, mass |-> m]

\* ------------------------------------------------- SolarSystemBody.__init__
\* variant: zero is accepted by the domain check
math_log_raises_mut(m) == m < 0

\* math.log raises ValueError("math domain error") for a non-positive argument
math_log_raises(m) == m <= 0

RECURSIVE LogIter(_, _)
LogIter(x, n) ==
    IF x * LogBaseDen >= Scale * LogBaseNum
    THEN LogIter((x * LogBaseDen) \div LogBaseNum, n + 1)
    ELSE n * Scale + ((x - Scale) * LogBaseDen) \div (LogBaseNum - LogBaseDen)

\* math.log(mass, display_log_base), in fixed point
math_log(m) == LogIter(m * Scale, 0)

Max(a, b) == IF a >= b THEN a ELSE b

DisplaySize(m) == Max(math_log(m), min_display_size * Scale)

\* SolarSystem.add_body
add_body(bs, body) == Append(bs, body)

\* constructing a Sun or a Planet: the body is registered last
Construct ==
    /\ pc = "setup"
    /\ Len(kind) < MaxBodies
    /\ \E k \in Kinds, m \in Masses, p \in Positions, v \in Velocities :
        /\ lastOp' = Op("construct", 0, 0, m)
        /\ trace' = <<>>
        /\ IF math_log_raises(m)
           THEN /\ raised' = "ValueError"
                /\ pc' = "halted"
                /\ UNCHANGED <<kind, mass, position, velocity, display_size,
                               bodies>>
           ELSE /\ kind' = Append(kind, k)
                /\ mass' = Append(mass, m)
                /\ position' = Append(position, <<p[1] * Scale, p[2] * Scale>>)
                /\ velocity' = Append(velocity, <<v[1] * Scale, v[2] * Scale>>)
                /\ display_size' = Append(display_size, DisplaySize(m))
                /\ bodies' = add_body(bodies, Len(kind) + 1)
                /\ UNCHANGED <<raised, pc>>
    /\ UNCHANGED <<bodies_copy, ticks, calls>>

\* ------------------------------------------------------ turtle navigation
\* Turtle.distance: math.hypot of the difference of the positions
distance(first, second) ==
    LET dx == position[second][1] - position[first][1]
        dy == position[second][2] - position[first][2]
    IN ISqrt(dx * dx + dy * dy)

\* math.cos(math.radians(first.towards(second))), times Scale
cos_towards(first, second) ==
    RoundDiv((position[second][1] - position[first][1]) * Scale,
             distance(first, second))

\* math.sin(math.radians(first.towards(second))), times Scale
sin_towards(first, second) ==
    RoundDiv((position[second][2] - position[first][2]) * Scale,
             distance(first, second))

\* --------------------------------------- SolarSystem.accelerate_due_to_gravity
\* force = first.mass * second.mass / first.distance(second) ** 2
force(first, second) ==
    RoundDiv(mass[first] * mass[second] * Scale * Scale * Scale,
             distance(first, second) * distance(first, second))

\* acceleration = force / body.mass
acceleration(f, body) == RoundDiv(f, mass[body])

\* variant: the sign is never flipped for the second body
reverse_mut(body, first) == 1

\* reverse is 1 for the first body and -1 for the second
reverse(body, first) == IF body = first THEN 1 ELSE -1

\* body.velocity after the loop body has run for it
accelerated(vel, body, first, second) ==
    LET a == acceleration(force(first, second), body)
        acc_x == RoundDiv(a * cos_towards(first, second), Scale)
        acc_y == RoundDiv(a * sin_towards(first, second), Scale)
    IN <<vel[body][1] + reverse(body, first) * acc_x,
         vel[body][2] + reverse(body, first) * acc_y>>

accelerate_due_to_gravity(st, first, second) ==
    IF distance(first, second) = 0
    THEN [st EXCEPT !.raised = "ZeroDivisionError"]
    ELSE [st EXCEPT
            !.velocity = [st.velocity EXCEPT
                ![first] = accelerated(st.velocity, first, first, second),
                ![second] = accelerated(st.velocity, second, first, second)],
            !.trace = Append(st.trace, Event("gravity", first, second))]

\* ---------------------------------------------------- SolarSystem.remove_body
\* list.remove: drops the first occurrence, ValueError when there is none
remove_body(st, body) ==
    IF body \in Range(st.bodies)
    THEN LET i == CHOOSE i \in 1..Len(st.bodies) :
                    /\ st.bodies[i] = body
                    /\ \A j \in 1..(i - 1) : st.bodies[j] # body
         IN [st EXCEPT
               !.bodies = SubSeq(st.bodies, 1, i - 1)
                            \o SubSeq(st.bodies, i + 1, Len(st.bodies)),
               !.trace = Append(st.trace, Event("remove", body, 0))]
    ELSE [st EXCEPT !.raised = "ValueError"]

\* ------------------------------------------------ SolarSystem.check_collision
\* variant: the planet-planet exemption is missing
BothPlanets_mut(first, second) == FALSE

BothPlanets(first, second) == kind[first] = "Planet" /\ kind[second] = "Planet"

\* variant: touching discs count as colliding
Overlaps_mut(first, second) ==
    2 * distance(first, second) <= display_size[first] + display_size[second]

\* first.distance(second) < first.display_size/2 + second.display_size/2
Overlaps(first, second) ==
    2 * distance(first, second) < display_size[first] + display_size[second]

\* isinstance(body, Planet)
IsPlanet(body) == kind[body] = "Planet"

RECURSIVE RemovePlanets(_, _)
RemovePlanets(st, pair) ==
    IF pair = <<>> \/ st.raised # "none" THEN st
    ELSE RemovePlanets(IF IsPlanet(Head(pair)) THEN remove_body(st, Head(pair))
                       ELSE st,
                       Tail(pair))

check_collision(st, first, second) ==
    LET entered == [st EXCEPT
                      !.trace = Append(st.trace, Event("collide", first, second))]
    IN IF BothPlanets(first, second) THEN entered
       ELSE IF Overlaps(first, second)
            THEN RemovePlanets(entered, <<first, second>>)
            ELSE entered

\* --------------------------------- SolarSystem.calculate_all_body_interactions
RECURSIVE InnerLoop(_, _, _)
InnerLoop(st, first, rest) ==
    IF rest = <<>> \/ st.raised # "none" THEN st
    ELSE LET g == accelerate_due_to_gravity(st, first, Head(rest))
             c == IF g.raised # "none" THEN g
                  ELSE check_collision(g, first, Head(rest))
         IN InnerLoop(c, first, Tail(rest))

RECURSIVE OuterLoop(_, _, _)
OuterLoop(st, copy, idx) ==
    IF idx > Len(copy) \/ st.raised # "none" THEN st
    ELSE OuterLoop(InnerLoop(st, copy[idx], SubSeq(copy, idx + 1, Len(copy))),
                   copy, idx + 1)

Entry ==
    [velocity |-> velocity, bodies |-> bodies, raised |-> "none", trace |-> <<>>]

calculate_all_body_interactions == OuterLoop(Entry, bodies, 1)

CalculateAllBodyInteractions ==
    /\ pc \in {"setup", "interact"}
    /\ ticks < MaxTicks
    /\ LET r == calculate_all_body_interactions
       IN /\ velocity' = r.velocity
          /\ bodies' = r.bodies
          /\ raised' = r.raised
          /\ trace' = r.trace
          /\ pc' = IF r.raised = "none" THEN "update" ELSE "halted"
    /\ bodies_copy' = bodies
    /\ lastOp' = Op("calculate_all_body_interactions", 0, 0, 0)
    /\ UNCHANGED <<kind, mass, position, display_size, ticks, calls>>

\* ----------------------------------------------------- SolarSystem.update_all
\* SolarSystemBody.move
move(pos, body) ==
    [pos EXCEPT ![body] = <<pos[body][1] + velocity[body][1],
                            pos[body][2] + velocity[body][2]>>]

RECURSIVE UpdateLoop(_, _)
UpdateLoop(st, rest) ==
    IF rest = <<>> THEN st
    ELSE UpdateLoop([position |-> move(st.position, Head(rest)),
                     trace |-> st.trace \o <<Event("move", Head(rest), 0),
                                             Event("draw", Head(rest), 0)>>],
                    Tail(rest))

\* variant: the loop walks the interaction pass's snapshot
update_all_mut ==
    LET r == UpdateLoop([position |-> position, trace |-> <<>>], bodies_copy)
    IN [r EXCEPT !.trace = Append(r.trace, Event("update", 0, 0))]

update_all ==
    LET r == UpdateLoop([position |-> position, trace |-> <<>>], bodies)
    IN [r EXCEPT !.trace = Append(r.trace, Event("update", 0, 0))]

UpdateAll ==
    /\ pc = "update"
    /\ position' = update_all.position
    /\ trace' = update_all.trace
    /\ ticks' = ticks + 1
    /\ pc' = "interact"
    /\ lastOp' = Op("update_all", 0, 0, 0)
    /\ UNCHANGED <<kind, mass, velocity, display_size, bodies, bodies_copy,
                   raised, calls>>

\* ------------------------------------- engine methods called on their own
\* (on systems of at most MaxDirectBodies bodies, at most MaxCalls times)
DirectCall(name, first, second, r) ==
    /\ velocity' = r.velocity
    /\ bodies' = r.bodies
    /\ raised' = r.raised
    /\ trace' = r.trace
    /\ pc' = IF r.raised = "none" THEN "direct" ELSE "halted"
    /\ calls' = calls + 1
    /\ lastOp' = Op(name, first, second, 0)
    /\ UNCHANGED <<kind, mass, position, display_size, bodies_copy, ticks>>

AccelerateDueToGravity ==
    /\ pc \in {"setup", "direct"}
    /\ calls < MaxCalls
    /\ Len(kind) <= MaxDirectBodies
    /\ \E first \in 1..Len(kind), second \in 1..Len(kind) :
        /\ first # second
        /\ DirectCall("accelerate_due_to_gravity", first, second,
                      accelerate_due_to_gravity(Entry, first, second))

CheckCollision ==
    /\ pc \in {"setup", "direct"}
    /\ calls < MaxCalls
    /\ Len(kind) <= MaxDirectBodies
    /\ \E first \in 1..Len(kind), second \in 1..Len(kind) :
        /\ first # second
        /\ DirectCall("check_collision", first, second,
                      check_collision(Entry, first, second))

\* ------------------------------------------------------------ specification
Init ==
    /\ kind = <<>>
    /\ mass = <<>>
    /\ position = <<>>
    /\ velocity = <<>>
    /\ display_size = <<>>
    /\ bodies = <<>>
    /\ bodies_copy = <<>>
    /\ pc = "setup"
    /\ raised = "none"
    /\ ticks = 0
    /\ calls = 0
    /\ lastOp = Op("init", 0, 0, 0)
    /\ trace = <<>>

Next ==
    \/ Construct
    \/ AccelerateDueToGravity
    \/ CheckCollision
    \/ CalculateAllBodyInteractions
    \/ UpdateAll

Spec == Init /\ [][Next]_vars

TypeOK ==
    /\ Len(kind) <= MaxBodies
    /\ Range(bodies) \subseteq 1..Len(kind)
    /\ pc \in {"setup", "direct", "interact", "update", "halted"}
    /\ raised \in {"none", "ValueError", "ZeroDivisionError"}
\* ------------------------------------------------------------------ claims
Created == 1..Len(kind)

Live(b) == b \in Range(bodies)

IsCalculate(op) == op.name = "calculate_all_body_interactions"

PlanetOf(a, b) == IF kind[a] = "Planet" THEN a ELSE b

StarOf(a, b) == IF kind[a] = "Sun" THEN a ELSE b

\* C1: check_collision on a live Star and a live Planet, in either argument
\* order, removes the Planet and keeps the Star when their distance is
\* strictly less than half the sum of their display sizes, and leaves the
\* live collection unchanged otherwise.
C1_CollisionRemoval ==
    [][\A a \in Created, b \in Created :
        (/\ lastOp' = Op("check_collision", a, b, 0)
         /\ kind[a] # kind[b]
         /\ Live(a) /\ Live(b))
        => IF 2 * distance(a, b) < display_size[a] + display_size[b]
           THEN /\ PlanetOf(a, b) \notin Range(bodies')
                /\ StarOf(a, b) \in Range(bodies')
           ELSE bodies' = bodies]_vars

C1_Witness ==
    /\ lastOp.name = "check_collision"
    /\ raised = "none"
    /\ kind[lastOp.first] = "Sun" /\ kind[lastOp.second] = "Planet"
    /\ ~Live(lastOp.second)
    /\ Live(lastOp.first)

\* C4: check_collision on two Planets or on two Stars removes neither, at
\* any distance: the live collection is the same before and after the call.
C4_SameKindExempt ==
    [][\A a \in Created, b \in Created :
        (lastOp' = Op("check_collision", a, b, 0) /\ kind[a] = kind[b])
        => (bodies' = bodies /\ raised' = "none")]_vars

C4_Witness ==
    /\ lastOp.name = "check_collision"
    /\ kind[lastOp.first] = "Planet" /\ kind[lastOp.second] = "Planet"
    /\ position[lastOp.first] = position[lastOp.second]
    /\ Live(lastOp.first) /\ Live(lastOp.second)

\* C5: constructing a body with mass <= 0 fails with an error and leaves
\* the live collection as it was.
C5_InvalidMassRejected ==
    [][(lastOp'.name = "construct" /\ lastOp'.mass <= 0)
        => (raised' = "ValueError" /\ bodies' = bodies /\ kind' = kind)]_vars

C5_Witness ==
    /\ lastOp.name = "construct"
    /\ lastOp.mass = 0
    /\ raised = "ValueError"
    /\ Len(bodies) >= 1

Moved(b) == <<position[b][1] + velocity[b][1], position[b][2] + velocity[b][2]>>

Count(t, e) == Cardinality({i \in 1..Len(t) : t[i] = e})

\* C7: update_all adds the velocity to the position exactly once for exactly
\* the bodies in the live collection and moves no other body, a removed
\* Planet keeps its position from then on, and the screen is flushed once
\* per call, after every body has been moved.
C7_UpdateAllMovesLive ==
    [][/\ lastOp'.name = "update_all" =>
            /\ \A b \in Created :
                /\ position'[b] = IF Live(b) THEN Moved(b) ELSE position[b]
                /\ Count(trace', Event("move", b, 0)) = IF Live(b) THEN 1 ELSE 0
            /\ Count(trace', Event("update", 0, 0)) = 1
            /\ trace'[Len(trace')] = Event("update", 0, 0)
       /\ lastOp'.name # "update_all" =>
            \A b \in Created : position'[b] = position[b]
       /\ \A b \in Created : ~Live(b) => position'[b] = position[b]]_vars

C7_Witness ==
    /\ lastOp.name = "update_all"
    /\ ticks = 2
    /\ \E p \in Created, q \in Created :
        /\ kind[p] = "Planet" /\ ~Live(p) /\ p \notin Range(bodies_copy)
        /\ Live(q) /\ Count(trace, Event("move", q, 0)) = 1

\* momentum gained by the pair in the step, component i
PairMomentumChange(a, b, i) ==
    mass[a] * (velocity'[a][i] - velocity[a][i])
        + mass[b] * (velocity'[b][i] - velocity[b][i])

\* rounding error one gravity call can leave in the pair's momentum
Tolerance(a, b) == mass[a] + mass[b]

GravityCall(a, b) ==
    lastOp' = Op("accelerate_due_to_gravity", a, b, 0) /\ raised' = "none"

\* a step of the driver loop on two bodies, none of them removed
TwoBodyTickStep ==
    /\ Len(kind) = 2
    /\ bodies = <<1, 2>>
    /\ bodies' = bodies
    /\ raised' = "none"
    /\ IsCalculate(lastOp') \/ lastOp'.name = "update_all"

\* C6 as stated: one accelerate_due_to_gravity call gives exactly opposite
\* momentum changes to the two bodies, and the total momentum of a two-body
\* system without removal is exactly the same after every tick.
C6_ExactMomentum ==
    [][/\ \A a \in Created, b \in Created :
            GravityCall(a, b) =>
                \A i \in 1..2 : PairMomentumChange(a, b, i) = 0
       /\ TwoBodyTickStep => \A i \in 1..2 : PairMomentumChange(1, 2, i) = 0]_vars

\* C6 amended: the momentum changes of the two bodies are opposite up to the
\* rounding error of the arithmetic, and the total momentum of a two-body
\* system without removal drifts by at most that error in each tick.
C6_MomentumWithinTolerance ==
    [][/\ \A a \in Created, b \in Created :
            GravityCall(a, b) =>
                \A i \in 1..2 : Abs(PairMomentumChange(a, b, i)) <= Tolerance(a, b)
       /\ TwoBodyTickStep =>
            \A i \in 1..2 : Abs(PairMomentumChange(1, 2, i)) <= Tolerance(1, 2)]_vars

C6_Witness ==
    /\ lastOp.name = "accelerate_due_to_gravity"
    /\ raised = "none"
    /\ mass[lastOp.first] # mass[lastOp.second]
    /\ \A v \in Velocities :
        /\ velocity[lastOp.first] # <<v[1] * Scale, v[2] * Scale>>
        /\ velocity[lastOp.second] # <<v[1] * Scale, v[2] * Scale>>

PairwiseDistinct(s) ==
    \A i \in 1..Len(s), j \in 1..Len(s) :
        i # j => position[s[i]] # position[s[j]]

\* C2: calculate_all_body_interactions runs to completion without raising
\* whenever the bodies are at pairwise distinct positions, also when one
\* Planet overlaps two Stars.
C2_ScanCompletes ==
    (IsCalculate(lastOp) /\ PairwiseDistinct(bodies_copy)) => raised = "none"

\* C3: gravity between two bodies at identical coordinates does not raise a
\* division fault.
C3_NoDivisionFault == raised # "ZeroDivisionError"

RECURSIVE ScanFrom(_, _, _)
ScanFrom(copy, i, j) ==
    IF i >= Len(copy) THEN <<>>
    ELSE IF j > Len(copy) THEN ScanFrom(copy, i + 1, i + 2)
    ELSE <<Event("gravity", copy[i], copy[j]), Event("collide", copy[i], copy[j])>>
            \o ScanFrom(copy, i, j + 1)

IsPairEvent(e) == e.op \in {"gravity", "collide"}

\* C8: one interaction pass processes every pair (i < j) of the bodies
\* present at its start exactly once, in ascending index order, gravity
\* immediately before the collision check.
C8_EveryPairOnceInOrder ==
    IsCalculate(lastOp) =>
        SelectSeq(trace, IsPairEvent) = ScanFrom(bodies_copy, 1, 2)

NoObserverAfterRemoval(t) ==
    \A k \in 1..Len(t), l \in 1..Len(t) :
        (k < l /\ t[k].op = "remove" /\ IsPairEvent(t[l]))
            => t[k].a \notin {t[l].a, t[l].b}

\* C9: a Planet removed by a collision is not accelerated, not
\* collision-checked and not used as a source of gravity again, neither in
\* the rest of the pass that removed it nor in a later tick.
C9_RemovedHasNoObservers ==
    [][(IsCalculate(lastOp') \/ lastOp'.name = "update_all") =>
        /\ \A p \in Created : ~Live(p) => velocity'[p] = velocity[p]
        /\ NoObserverAfterRemoval(trace')]_vars

OverlapsSomeStar(b, s) ==
    \E x \in Range(s) :
        /\ kind[x] = "Sun"
        /\ 2 * distance(x, b) < display_size[x] + display_size[b]

\* C10: whatever the order of the collection, an interaction pass leaves
\* every Star and every Planet that overlaps no Star, and nothing else.
C10_SurvivorsIndependentOfOrder ==
    IsCalculate(lastOp) =>
        Range(bodies) = {b \in Range(bodies_copy) :
                            kind[b] = "Sun" \/ ~OverlapsSomeStar(b, bodies_copy)}
====
